---- MODULE Spec2Model ----
(***************************************************************************)
(* A model of the GaBOflow sources:                                        *)
(*   BoManifolds/Riemannian_utils/geometry_utils.py  (Rodrigues rotation)  *)
(*   examples/bo_spd/benchmark_examples/bo_spd_ackley_manifold.py          *)
(* Real numbers are modelled as exact rationals <<numerator, denominator>> *)
(* in lowest terms with a positive denominator; floating-point rounding is *)
(* not modelled.                                                           *)
(***************************************************************************)
EXTENDS Integers, Sequences, FiniteSets, TLC

VARIABLES
    gpc,              \* geometry program: position ("start", "skew", "rotated")
    ax,               \* argument ax of rotation_matrix_from_axis_angle
    angle,            \* argument angle, as the exact pair [sin, cos]
    utilde,           \* local utilde of rotation_matrix_from_axis_angle
    R,                \* value returned by rotation_matrix_from_axis_angle
    pc,               \* example script: the section about to run, or how it ended
    names,            \* example script: the names bound so far
    display_figures,  \* line 84
    nb_iter_bo,       \* line 87
    nb_data_init,     \* line 151
    data_y,           \* bo_optimizer.acquisition.data[1]
    x_eval,           \* line 229
    y_eval,           \* line 230
    nb_eval,          \* line 243
    distances,        \* line 244
    y_best,           \* line 249
    plot_dist,        \* the arguments of plt.plot on line 256
    plot_best,        \* the arguments of plt.plot on line 264
    mpc,              \* multistart wrapper: "running", "returned" or "failed"
    seeds,            \* multistart wrapper: the k seed points drawn
    next_seed,        \* multistart wrapper: index of the seed to run next
    runs,             \* multistart wrapper: per-run results, in the order found
    failed_seeds,     \* multistart wrapper: the seeds whose run failed
    best,             \* multistart wrapper: best (seed, point, value) so far
    opc,              \* optimizer: state of the run
    policy,           \* optimizer: "shrink" or "project" at an infeasible trial point
    iterate,          \* optimizer: current iterate
    n_iter,           \* optimizer: iterations done
    trial,            \* optimizer: first trial point of the last line search
    trace,            \* optimizer: the accepted iterates
    returned          \* optimizer: the point returned at termination

geomVars == <<gpc, ax, angle, utilde, R>>
scriptVars == <<pc, names, display_figures, nb_iter_bo, nb_data_init, data_y, x_eval,
                y_eval, nb_eval, distances, y_best, plot_dist, plot_best>>
multiVars == <<mpc, seeds, next_seed, runs, failed_seeds, best>>
optVars == <<opc, policy, iterate, n_iter, trial, trace, returned>>
vars == <<geomVars, scriptVars, multiVars, optVars>>

(***************************************************************************)
(* Bounds                                                                  *)
(***************************************************************************)
MaxNum == 2           \* axis components are n/d with |n| <= MaxNum, d in Dens
MaxVec == 1           \* test vectors have integer components in -MaxVec..MaxVec
MaxInit == 2          \* nb_data_init is in 1..MaxInit
MaxIter == 3          \* nb_iter_bo is in 0..MaxIter
MaxVal == 2           \* objective values are in 0..MaxVal
MaxSeeds == 3         \* the multistart wrapper draws 1..MaxSeeds seeds
LoEig == 1            \* least eigenvalue of the domain, in grid units
HiEig == 3            \* greatest eigenvalue of the domain, in grid units
MaxStep == 2          \* initial step lengths of the line search are in 1..MaxStep
MaxIters == 2         \* iteration cap of one optimizer run

(***************************************************************************)
(* Exact rational arithmetic                                               *)
(***************************************************************************)
Abs(n) == IF n < 0 THEN -n ELSE n

RECURSIVE GCD(_, _)
GCD(a, b) == IF b = 0 THEN a ELSE GCD(b, a % b)

Rat(n, d) ==
    LET g == GCD(Abs(n), Abs(d))
        s == IF d < 0 THEN -1 ELSE 1
    IN  <<(s * n) \div g, (s * d) \div g>>

Zero == <<0, 1>>
One == <<1, 1>>
RAdd(p, q) == Rat(p[1] * q[2] + q[1] * p[2], p[2] * q[2])
RNeg(p) == <<-p[1], p[2]>>
RSub(p, q) == RAdd(p, RNeg(q))
RMul(p, q) == Rat(p[1] * q[1], p[2] * q[2])

Idx == 1..3

\* numpy operations on 3x3 arrays and 3-vectors
eye3 == [i \in Idx |-> [j \in Idx |-> IF i = j THEN One ELSE Zero]]
MAdd(A, B) == [i \in Idx |-> [j \in Idx |-> RAdd(A[i][j], B[i][j])]]
MScale(c, A) == [i \in Idx |-> [j \in Idx |-> RMul(c, A[i][j])]]
MDot(A, B) ==
    [i \in Idx |-> [j \in Idx |->
        RAdd(RAdd(RMul(A[i][1], B[1][j]), RMul(A[i][2], B[2][j])), RMul(A[i][3], B[3][j]))]]
MVec(A, v) ==
    [i \in Idx |-> RAdd(RAdd(RMul(A[i][1], v[1]), RMul(A[i][2], v[2])), RMul(A[i][3], v[3]))]
Transpose(A) == [i \in Idx |-> [j \in Idx |-> A[j][i]]]
VDot(u, v) == RAdd(RAdd(RMul(u[1], v[1]), RMul(u[2], v[2])), RMul(u[3], v[3]))
VNeg(v) == [i \in Idx |-> RNeg(v[i])]
VScale(c, v) == [i \in Idx |-> RMul(c, v[i])]
Cross(u, v) ==
    [i \in Idx |->
        CASE i = 1 -> RSub(RMul(u[2], v[3]), RMul(u[3], v[2]))
          [] i = 2 -> RSub(RMul(u[3], v[1]), RMul(u[1], v[3]))
          [] i = 3 -> RSub(RMul(u[1], v[2]), RMul(u[2], v[1]))]

(***************************************************************************)
(* geometry_utils.py                                                       *)
(* Python index q[0], q[1], q[2] is q[1], q[2], q[3] here.                 *)
(***************************************************************************)
\* a plausible slip: the transposed sign pattern
vector_to_skew_matrix_transposed(q) ==
    [i \in Idx |->
        CASE i = 1 -> [j \in Idx |-> CASE j = 1 -> Zero [] j = 2 -> q[3] [] j = 3 -> RNeg(q[2])]
          [] i = 2 -> [j \in Idx |-> CASE j = 1 -> RNeg(q[3]) [] j = 2 -> Zero [] j = 3 -> q[1]]
          [] i = 3 -> [j \in Idx |-> CASE j = 1 -> q[2] [] j = 2 -> RNeg(q[1]) [] j = 3 -> Zero]]

vector_to_skew_matrix(q) ==
    [i \in Idx |->
        CASE i = 1 -> [j \in Idx |-> CASE j = 1 -> Zero [] j = 2 -> RNeg(q[3]) [] j = 3 -> q[2]]
          [] i = 2 -> [j \in Idx |-> CASE j = 1 -> q[3] [] j = 2 -> Zero [] j = 3 -> RNeg(q[1])]
          [] i = 3 -> [j \in Idx |-> CASE j = 1 -> RNeg(q[2]) [] j = 2 -> q[1] [] j = 3 -> Zero]]

np_sin(a) == a.sin
np_cos(a) == a.cos

\* a plausible slip: sin and cos exchanged
rodrigues_swapped_trig(K, a) ==
    MAdd(MAdd(eye3, MScale(np_cos(a), K)), MScale(RSub(One, np_sin(a)), MDot(K, K)))

\* a plausible slip: (1 + cos) for (1 - cos)
rodrigues_plus_cos(K, a) ==
    MAdd(MAdd(eye3, MScale(np_sin(a), K)), MScale(RAdd(One, np_cos(a)), MDot(K, K)))

\* a plausible slip: the K.K term subtracted
rodrigues_minus_sq(K, a) ==
    MAdd(MAdd(eye3, MScale(np_sin(a), K)), MScale(RNeg(RSub(One, np_cos(a))), MDot(K, K)))

\* line 25: np.eye(3) + np.sin(angle)*utilde + (1 - np.cos(angle))*utilde.dot(utilde)
rodrigues(K, a) ==
    MAdd(MAdd(eye3, MScale(np_sin(a), K)), MScale(RSub(One, np_cos(a)), MDot(K, K)))

rotation_matrix_from_axis_angle(q, a) == rodrigues(vector_to_skew_matrix(q), a)

(***************************************************************************)
(* Inputs of the geometry functions                                        *)
(***************************************************************************)
\* denominators of the axis components: thirds give unit axes such as (1/3, 2/3, 2/3)
Dens == {1, 3}
Scalars == {Rat(n, d) : n \in (-MaxNum)..MaxNum, d \in Dens}
Axes == [Idx -> Scalars]
Vecs == [Idx -> {Rat(n, 1) : n \in (-MaxVec)..MaxVec}]

\* angles whose sine and cosine are rational: 0, pi/2, pi, -pi/2, and the
\* two acute angles of the 3-4-5 triangle
Angles ==
    { [name |-> "0", sin |-> Zero, cos |-> One],
      [name |-> "pi/2", sin |-> One, cos |-> Zero],
      [name |-> "pi", sin |-> Zero, cos |-> RNeg(One)],
      [name |-> "-pi/2", sin |-> RNeg(One), cos |-> Zero],
      [name |-> "atan(3/4)", sin |-> Rat(3, 5), cos |-> Rat(4, 5)],
      [name |-> "atan(4/3)", sin |-> Rat(4, 5), cos |-> Rat(3, 5)] }

NoAngle == [name |-> "none", sin |-> Zero, cos |-> Zero]
NoMatrix == [i \in Idx |-> [j \in Idx |-> Zero]]

GeomStart ==
    /\ gpc = "start"
    /\ ax \in Axes
    /\ angle = NoAngle
    /\ utilde = NoMatrix
    /\ R = NoMatrix

\* line 24: utilde = vector_to_skew_matrix(ax)
Skew ==
    /\ gpc = "start"
    /\ utilde' = vector_to_skew_matrix(ax)
    /\ gpc' = "skew"
    /\ UNCHANGED <<ax, angle, R>>
    /\ UNCHANGED <<scriptVars, multiVars, optVars>>

\* a call rotation_matrix_from_axis_angle(ax, angle), lines 24-25
Rotate ==
    /\ gpc = "skew"
    /\ \E a \in Angles :
        /\ angle' = a
        /\ R' = rotation_matrix_from_axis_angle(ax, a)
    /\ gpc' = "rotated"
    /\ UNCHANGED <<ax, utilde>>
    /\ UNCHANGED <<scriptVars, multiVars, optVars>>

(***************************************************************************)
(* bo_spd_ackley_manifold.py                                               *)
(* A numpy array of length n is a function on 0..n-1, so indices are the   *)
(* Python ones.                                                            *)
(***************************************************************************)
Empty == <<>>
Len0(f) == Cardinality(DOMAIN f)
Append0(f, v) == [i \in 0..Len0(f) |-> IF i < Len0(f) THEN f[i] ELSE v]
\* f[k:]
SliceFrom(f, k) == [i \in 0..(Len0(f) - k - 1) |-> f[i + k]]
\* f[:k]
SliceTo(f, k) == [i \in 0..((IF k < Len0(f) THEN k ELSE Len0(f)) - 1) |-> f[i]]
\* np.array(range(a, b))
range(a, b) == [i \in 0..(b - a - 1) |-> a + i]

RECURSIVE amin(_, _)
amin(f, n) ==
    IF n = 1 THEN f[0]
    ELSE LET m == amin(f, n - 1) IN IF f[n - 1] < m THEN f[n - 1] ELSE m
\* f.min() of a non-empty array
np_min(f) == amin(f, Len0(f))

\* spd_manifold.dist(p, q) of pymanopt, kept symbolic as the pair of its arguments
spd_dist(p, q) == <<p, q>>

\* a plausible slip: the slice taken from i on
best_from(y, i) == np_min(SliceFrom(y, i))

\* line 251: y_eval[:(i + 1)].min()
best_so_far(y, i) == np_min(SliceTo(y, i + 1))

Vals == 0..MaxVal

ScriptIdle ==
    /\ pc = "idle"
    /\ names = {}
    /\ display_figures = TRUE
    /\ nb_iter_bo = 0
    /\ nb_data_init = 0
    /\ data_y = Empty
    /\ x_eval = Empty
    /\ y_eval = Empty
    /\ nb_eval = 0
    /\ distances = Empty
    /\ y_best = Empty
    /\ plot_dist = [x |-> Empty, y |-> Empty]
    /\ plot_best = [x |-> Empty, y |-> Empty]

GeomIdle ==
    /\ gpc = "idle"
    /\ ax = <<Zero, Zero, Zero>>
    /\ angle = NoAngle
    /\ utilde = NoMatrix
    /\ R = NoMatrix

\* the script as started; display_figures, nb_iter_bo and nb_data_init are the
\* settings the user edits (lines 84, 87, 151)
ScriptStart ==
    /\ pc = "setup"
    /\ names = {}
    /\ display_figures \in BOOLEAN
    /\ nb_iter_bo \in 0..MaxIter
    /\ nb_data_init \in 1..MaxInit
    /\ data_y = Empty
    /\ x_eval = Empty
    /\ y_eval = Empty
    /\ nb_eval = 0
    /\ distances = Empty
    /\ y_best = Empty
    /\ plot_dist = [x |-> Empty, y |-> Empty]
    /\ plot_best = [x |-> Empty, y |-> Empty]

\* a section that reads the names rd and binds the names df: reading an unbound
\* name raises NameError and ends the script
Section(rd, df, next) ==
    IF rd \subseteq names
    THEN /\ names' = names \cup df
         /\ pc' = next
    ELSE /\ names' = names
         /\ pc' = "NameError"

\* lines 69-125
Setup ==
    /\ pc = "setup"
    /\ Section({}, {"dim", "dim_vec", "beta_min", "display_figures", "nb_iter_bo",
                    "spd_manifold", "min_eigenvalue", "max_eigenvalue", "base",
                    "test_function", "true_sigma", "true_opt_val"}, "plot_function")
    /\ UNCHANGED <<display_figures, nb_iter_bo, nb_data_init, data_y, x_eval, y_eval,
                   nb_eval, distances, y_best, plot_dist, plot_best>>
    /\ UNCHANGED <<geomVars, multiVars, optVars>>

\* lines 127-136
PlotTrueFunction ==
    /\ pc = "plot_function"
    /\ IF display_figures
       THEN Section({"display_figures", "test_function", "true_sigma", "true_opt_val"},
                    {"r_cone", "fig", "ax", "max_colors"}, "init_data")
       ELSE Section({"display_figures"}, {}, "init_data")
    /\ UNCHANGED <<display_figures, nb_iter_bo, nb_data_init, data_y, x_eval, y_eval,
                   nb_eval, distances, y_best, plot_dist, plot_best>>
    /\ UNCHANGED <<geomVars, multiVars, optVars>>

\* lines 140-184: the initial data are evaluated and become the data of the
\* model, of the acquisition function and of the optimizer
GenerateInitialData ==
    /\ pc = "init_data"
    /\ Section({"min_eigenvalue", "max_eigenvalue", "dim", "dim_vec", "beta_min",
                "test_function", "spd_manifold"},
               {"domain", "spd_random_generator", "nb_data_init", "x_init_vec", "y_init",
                "n", "k", "mean_fct", "model", "acq_fct", "acq_fct_opt", "bo_optimizer"},
               "optimize")
    /\ \E y_init \in [0..(nb_data_init - 1) -> Vals] : data_y' = y_init
    /\ UNCHANGED <<display_figures, nb_iter_bo, nb_data_init, x_eval, y_eval,
                   nb_eval, distances, y_best, plot_dist, plot_best>>
    /\ UNCHANGED <<geomVars, multiVars, optVars>>

\* line 187: one of the n_iter iterations of bo_optimizer.optimize, which
\* evaluates test_function at a new point and appends the pair to the data
BoIteration ==
    /\ pc = "optimize"
    /\ Len0(data_y) < nb_data_init + nb_iter_bo
    /\ \E y \in Vals : data_y' = Append0(data_y, y)
    /\ UNCHANGED <<pc, names, display_figures, nb_iter_bo, nb_data_init, x_eval, y_eval,
                   nb_eval, distances, y_best, plot_dist, plot_best>>
    /\ UNCHANGED <<geomVars, multiVars, optVars>>

\* lines 187-188: optimize returns
FinishOptimize ==
    /\ pc = "optimize"
    /\ Len0(data_y) = nb_data_init + nb_iter_bo
    /\ Section({"bo_optimizer", "test_function", "nb_iter_bo"}, {"Bopt"}, "plot_model")
    /\ UNCHANGED <<display_figures, nb_iter_bo, nb_data_init, data_y, x_eval, y_eval,
                   nb_eval, distances, y_best, plot_dist, plot_best>>
    /\ UNCHANGED <<geomVars, multiVars, optVars>>

\* lines 190-207
PlotAcquisitionGp ==
    /\ pc = "plot_model"
    /\ IF display_figures
       THEN Section({"display_figures", "acq_fct", "r_cone", "bo_optimizer", "Bopt",
                     "true_sigma", "model", "true_opt_val"}, {"fig", "ax"},
                    "plot_observations")
       ELSE Section({"display_figures"}, {}, "plot_observations")
    /\ UNCHANGED <<display_figures, nb_iter_bo, nb_data_init, data_y, x_eval, y_eval,
                   nb_eval, distances, y_best, plot_dist, plot_best>>
    /\ UNCHANGED <<geomVars, multiVars, optVars>>

\* lines 209-239: x_eval and y_eval are bound here, inside the if; a point of
\* x_eval is represented by the index of its row in the data
PlotObservations ==
    /\ pc = "plot_observations"
    /\ IF display_figures
       THEN /\ Section({"display_figures", "r_cone", "bo_optimizer", "true_opt_val",
                        "max_colors", "true_sigma", "Bopt"},
                       {"fig", "ax", "x_eval", "y_eval"}, "convergence")
            /\ x_eval' = [n \in DOMAIN data_y |-> n]
            /\ y_eval' = data_y
       ELSE /\ Section({"display_figures"}, {}, "convergence")
            /\ UNCHANGED <<x_eval, y_eval>>
    /\ UNCHANGED <<display_figures, nb_iter_bo, nb_data_init, data_y,
                   nb_eval, distances, y_best, plot_dist, plot_best>>
    /\ UNCHANGED <<geomVars, multiVars, optVars>>

\* lines 243-251
ConvergenceData ==
    /\ pc = "convergence"
    /\ Section({"x_eval", "spd_manifold", "y_eval"},
               {"nb_eval", "distances", "n", "y_best", "i"}, "convergence_plots")
    /\ IF {"x_eval", "spd_manifold", "y_eval"} \subseteq names
       THEN LET nb == Len0(x_eval) IN
            /\ nb_eval' = nb
            /\ distances' = [n \in 0..(nb - 2) |-> spd_dist(x_eval[n + 1], x_eval[n])]
            /\ y_best' = [i \in 0..(nb - 1) |-> best_so_far(y_eval, i)]
       ELSE UNCHANGED <<nb_eval, distances, y_best>>
    /\ UNCHANGED <<display_figures, nb_iter_bo, nb_data_init, data_y, x_eval, y_eval,
                   plot_dist, plot_best>>
    /\ UNCHANGED <<geomVars, multiVars, optVars>>

\* lines 254-270: plt.plot raises ValueError when x and y differ in length
ConvergencePlots ==
    /\ pc = "convergence_plots"
    /\ LET dist_x == range(nb_data_init, nb_eval - 1)
           dist_y == SliceFrom(distances, nb_data_init)
           best_x == range(nb_data_init, nb_eval)
           best_y == SliceFrom(y_best, nb_data_init)
       IN  IF Len0(dist_x) # Len0(dist_y)
           THEN /\ pc' = "ValueError"
                /\ UNCHANGED <<names, plot_dist, plot_best>>
           ELSE /\ plot_dist' = [x |-> dist_x, y |-> dist_y]
                /\ IF Len0(best_x) # Len0(best_y)
                   THEN /\ pc' = "ValueError"
                        /\ UNCHANGED <<names, plot_best>>
                   ELSE /\ plot_best' = [x |-> best_x, y |-> best_y]
                        /\ Section({"nb_data_init", "nb_eval", "distances", "y_best"},
                                   {}, "done")
    /\ UNCHANGED <<display_figures, nb_iter_bo, nb_data_init, data_y, x_eval, y_eval,
                   nb_eval, distances, y_best>>
    /\ UNCHANGED <<geomVars, multiVars, optVars>>

(***************************************************************************)
(* Constrained domain (in_domain, project_to_domain of SPD_utils, bound to *)
(* the manifold on lines 93-94).  An SPD matrix is represented by its pair *)
(* of eigenvalues on an integer grid.                                      *)
(***************************************************************************)
Eigs == 0..(HiEig + 1)
Points == Eigs \X Eigs
NoPoint == <<-1, -1>>

in_domain(x) == \A i \in 1..2 : LoEig <= x[i] /\ x[i] <= HiEig

Clip(e) == IF e < LoEig THEN LoEig ELSE IF e > HiEig THEN HiEig ELSE e
\* eigenvalue clipping to [min_eigenvalue, max_eigenvalue]
project_to_domain(x) == <<Clip(x[1]), Clip(x[2])>>

(***************************************************************************)
(* Manifold-constrained optimizer (ManifoldOptimizer, constructed on lines *)
(* 169-177)                                                                *)
(***************************************************************************)
Directions == {d \in {-1, 0, 1} \X {-1, 0, 1} : d # <<0, 0>>}

\* the trial point exp(current, step * direction)
trial_point(x, d, step) == <<x[1] + step * d[1], x[2] + step * d[2]>>

RECURSIVE backtrack(_, _, _)
\* backtracking: the step is halved until the trial point is feasible; a step
\* shrunk to nothing leaves the iterate where it is
backtrack(x, d, step) ==
    IF in_domain(trial_point(x, d, step)) THEN trial_point(x, d, step)
    ELSE IF step = 0 THEN x
    ELSE backtrack(x, d, step \div 2)

\* a plausible slip: the trial point accepted without the feasibility test
line_search_unchecked(x, d, step, pol) == trial_point(x, d, step)

\* the line search of one iteration under the policy pol
line_search(x, d, step, pol) ==
    IF in_domain(trial_point(x, d, step)) THEN trial_point(x, d, step)
    ELSE IF pol = "shrink" THEN backtrack(x, d, step)
    ELSE project_to_domain(trial_point(x, d, step))

OptIdle ==
    /\ opc = "idle"
    /\ policy = "shrink"
    /\ iterate = NoPoint
    /\ n_iter = 0
    /\ trial = NoPoint
    /\ trace = <<>>
    /\ returned = NoPoint

\* INITIALIZED: the seed is the initial point, feasible or not
OptStart ==
    /\ opc = "INITIALIZED"
    /\ policy \in {"shrink", "project"}
    /\ iterate \in Points
    /\ n_iter = 0
    /\ trial = NoPoint
    /\ trace = <<>>
    /\ returned = NoPoint

\* INITIALIZED -> ITERATING from a feasible seed
Begin ==
    /\ opc = "INITIALIZED"
    /\ in_domain(iterate)
    /\ opc' = "ITERATING"
    /\ trace' = <<iterate>>
    /\ UNCHANGED <<policy, iterate, n_iter, trial, returned>>
    /\ UNCHANGED <<geomVars, scriptVars, multiVars>>

\* INITIALIZED -> INFEASIBLE_ABORT: no feasible point from the seed; reported,
\* no point is returned
InfeasibleAbort ==
    /\ opc = "INITIALIZED"
    /\ ~in_domain(iterate)
    /\ opc' = "INFEASIBLE_ABORT"
    /\ iterate' = NoPoint
    /\ UNCHANGED <<policy, n_iter, trial, trace, returned>>
    /\ UNCHANGED <<geomVars, scriptVars, multiVars>>

\* one iteration: search direction, line search, accept
Iterate ==
    /\ opc = "ITERATING"
    /\ n_iter < MaxIters
    /\ \E d \in Directions, step \in 1..MaxStep :
          LET x == line_search(iterate, d, step, policy) IN
          /\ trial' = trial_point(iterate, d, step)
          /\ iterate' = x
          /\ trace' = Append(trace, x)
    /\ n_iter' = n_iter + 1
    /\ UNCHANGED <<opc, policy, returned>>
    /\ UNCHANGED <<geomVars, scriptVars, multiVars>>

\* ITERATING -> CONVERGED: gradient norm below tolerance
Converge ==
    /\ opc = "ITERATING"
    /\ opc' = "CONVERGED"
    /\ returned' = iterate
    /\ UNCHANGED <<policy, iterate, n_iter, trial, trace>>
    /\ UNCHANGED <<geomVars, scriptVars, multiVars>>

\* ITERATING -> MAX_ITER_REACHED
MaxIterReached ==
    /\ opc = "ITERATING"
    /\ n_iter = MaxIters
    /\ opc' = "MAX_ITER_REACHED"
    /\ returned' = iterate
    /\ UNCHANGED <<policy, iterate, n_iter, trial, trace>>
    /\ UNCHANGED <<geomVars, scriptVars, multiVars>>

(***************************************************************************)
(* Multistart wrapper (MultistartedOptimizer, constructed on lines 169-178)*)
(* A seed is [ok, value]: whether the optimizer run from it succeeds, and  *)
(* the acquisition value of the point it then returns.                     *)
(***************************************************************************)
SeedOutcomes == [ok : BOOLEAN, value : Vals]
NoBest == [seed |-> 0, value |-> -1]

\* the acquisition is maximized: a run replaces the best only when strictly better
Better(v, w) == v > w

\* a plausible slip: a failed run ends the loop
abort_after_failure(i, k) == k + 1

\* the seed to run after the run of seed i failed
after_failure(i, k) == i + 1

MultiIdle ==
    /\ mpc = "idle"
    /\ seeds = <<>>
    /\ next_seed = 0
    /\ runs = <<>>
    /\ failed_seeds = {}
    /\ best = NoBest

MultiStart ==
    /\ mpc = "running"
    /\ \E k \in 1..MaxSeeds : seeds \in [1..k -> SeedOutcomes]
    /\ next_seed = 1
    /\ runs = <<>>
    /\ failed_seeds = {}
    /\ best = NoBest

\* the run from the next seed returns a (point, value) pair
RunSucceeds ==
    /\ mpc = "running"
    /\ next_seed <= Len(seeds)
    /\ seeds[next_seed].ok
    /\ LET r == [seed |-> next_seed, value |-> seeds[next_seed].value] IN
       /\ runs' = Append(runs, r)
       /\ best' = IF best = NoBest \/ Better(r.value, best.value) THEN r ELSE best
    /\ next_seed' = next_seed + 1
    /\ UNCHANGED <<mpc, seeds, failed_seeds>>
    /\ UNCHANGED <<geomVars, scriptVars, optVars>>

\* the run from the next seed fails: the failure is caught and recorded
RunFails ==
    /\ mpc = "running"
    /\ next_seed <= Len(seeds)
    /\ ~seeds[next_seed].ok
    /\ failed_seeds' = failed_seeds \cup {next_seed}
    /\ next_seed' = after_failure(next_seed, Len(seeds))
    /\ UNCHANGED <<mpc, seeds, runs, best>>
    /\ UNCHANGED <<geomVars, scriptVars, optVars>>

\* all seeds done: the best pair, the per-run results and the failed seeds are
\* returned; with no successful run there is no best pair
Return ==
    /\ mpc = "running"
    /\ next_seed > Len(seeds)
    /\ mpc' = IF runs = <<>> THEN "failed" ELSE "returned"
    /\ UNCHANGED <<seeds, next_seed, runs, failed_seeds, best>>
    /\ UNCHANGED <<geomVars, scriptVars, optVars>>

GeomInit == GeomStart /\ ScriptIdle /\ MultiIdle /\ OptIdle
ScriptInit == ScriptStart /\ GeomIdle /\ MultiIdle /\ OptIdle
MultiInit == MultiStart /\ GeomIdle /\ ScriptIdle /\ OptIdle
OptInit == OptStart /\ GeomIdle /\ ScriptIdle /\ MultiIdle

GeomNext == Skew \/ Rotate
ScriptNext ==
    \/ Setup
    \/ PlotTrueFunction
    \/ GenerateInitialData
    \/ BoIteration
    \/ FinishOptimize
    \/ PlotAcquisitionGp
    \/ PlotObservations
    \/ ConvergenceData
    \/ ConvergencePlots
MultiNext == RunSucceeds \/ RunFails \/ Return
OptNext == Begin \/ InfeasibleAbort \/ Iterate \/ Converge \/ MaxIterReached

Spec == GeomInit /\ [][GeomNext]_vars
SpecScript == ScriptInit /\ [][ScriptNext]_vars
SpecMulti == MultiInit /\ [][MultiNext]_vars
SpecOpt == OptInit /\ [][OptNext]_vars

(***************************************************************************)
(* Properties of geometry_utils.py                                         *)
(***************************************************************************)
Delta(i, j) == IF i = j THEN One ELSE Zero
Two == <<2, 1>>
\* factors by which an axis is rescaled
Scales == {Two, <<1, 2>>}
IsUnit(q) == VDot(q, q) = One
Pi == [name |-> "pi", sin |-> Zero, cos |-> <<-1, 1>>]
AngleZero == [name |-> "0", sin |-> Zero, cos |-> One]

\* the entries of I + s.K + (1 - c).K.K written out in the components of q,
\* with K.K = q.q^T - (q.q).I and K the cross-product matrix of q
EntryOfRodrigues(q, a, i, j) ==
    LET k == CASE i = j -> Zero
               [] <<i, j>> = <<1, 2>> -> RNeg(q[3])
               [] <<i, j>> = <<1, 3>> -> q[2]
               [] <<i, j>> = <<2, 1>> -> q[3]
               [] <<i, j>> = <<2, 3>> -> RNeg(q[1])
               [] <<i, j>> = <<3, 1>> -> RNeg(q[2])
               [] <<i, j>> = <<3, 2>> -> q[1]
        kk == RSub(RMul(q[i], q[j]), RMul(Delta(i, j), VDot(q, q)))
    IN  RAdd(RAdd(Delta(i, j), RMul(a.sin, k)), RMul(RSub(One, a.cos), kk))

\* C1: rotation_matrix_from_axis_angle(ax, angle) is exactly
\* I + sin(angle).K + (1 - cos(angle)).K.K with K built from ax as given: the
\* axis is not renormalized, so for the axis c.ax the result uses c.K and c^2.K.K.
C1_RodriguesAsGiven ==
    gpc = "rotated" =>
        /\ \A i \in Idx, j \in Idx : R[i][j] = EntryOfRodrigues(ax, angle, i, j)
        /\ \A c \in Scales :
              rotation_matrix_from_axis_angle(VScale(c, ax), angle) =
                  [i \in Idx |-> [j \in Idx |->
                      RAdd(RAdd(Delta(i, j), RMul(RMul(angle.sin, c), utilde[i][j])),
                           RMul(RMul(RSub(One, angle.cos), RMul(c, c)),
                                MDot(utilde, utilde)[i][j]))]]

\* a rotation about a non-unit axis by an angle that is no multiple of pi/2 has
\* been computed, and it differs from the rotation about the doubled axis
C1_Witness ==
    /\ gpc = "rotated"
    /\ angle.name = "atan(3/4)"
    /\ ax = <<Two, <<1, 3>>, <<-1, 1>>>>
    /\ R # rotation_matrix_from_axis_angle(VScale(Two, ax), angle)

\* C2: rotation_matrix_from_axis_angle(axis, 0) is the 3x3 identity for every axis.
C2_ZeroAngleIdentity ==
    (gpc = "rotated" /\ angle = AngleZero) =>
        \A i \in Idx, j \in Idx : R[i][j] = IF i = j THEN <<1, 1>> ELSE <<0, 1>>

\* the rotation by angle 0 about a non-unit axis with no zero component
C2_Witness ==
    /\ gpc = "rotated"
    /\ angle = AngleZero
    /\ ax = <<Two, <<1, 3>>, <<-1, 1>>>>
    /\ R[1][1] = One
    /\ R[1][2] = Zero

\* C3: for a unit-norm axis, rotation_matrix_from_axis_angle(axis, pi) maps every
\* vector orthogonal to the axis to its negation.
C3_PiNegatesOrthogonal ==
    (gpc = "rotated" /\ angle = Pi /\ IsUnit(ax)) =>
        \A v \in Vecs : VDot(ax, v) = Zero => MVec(R, v) = VNeg(v)

\* the rotation by pi about the unit axis (1/3, 2/3, 2/3), which has the nonzero
\* orthogonal vector (0, 1, -1)
C3_Witness ==
    /\ gpc = "rotated"
    /\ angle = Pi
    /\ ax = <<<<1, 3>>, <<2, 3>>, <<2, 3>>>>
    /\ IsUnit(ax)
    /\ \E v \in Vecs :
          /\ v # [i \in Idx |-> Zero]
          /\ VDot(ax, v) = Zero
          /\ MVec(R, v) = VNeg(v)

\* C4: vector_to_skew_matrix(q) is skew-symmetric (its transpose is its negation,
\* its diagonal is zero) and is the cross-product matrix of q: K.v = q x v.
C4_SkewCrossProduct ==
    gpc = "skew" =>
        /\ \A i \in Idx, j \in Idx : utilde[j][i] = RNeg(utilde[i][j])
        /\ \A i \in Idx : utilde[i][i] = Zero
        /\ \A v \in Vecs : MVec(utilde, v) = Cross(ax, v)

\* the skew matrix of an axis with three different nonzero components
C4_Witness ==
    /\ gpc = "skew"
    /\ ax = <<Two, <<1, 3>>, <<-1, 1>>>>
    /\ utilde[1][2] = One
    /\ utilde[2][1] = <<-1, 1>>
    /\ utilde[3][2] = Two

(***************************************************************************)
(* Properties of bo_spd_ackley_manifold.py                                 *)
(***************************************************************************)
\* C5: for either value of display_figures the convergence-plot section is
\* reached with x_eval, y_eval, nb_data_init and spd_manifold bound, and the
\* script never stops on an undefined name.
C5_ConvergenceAlwaysProduced ==
    /\ pc # "NameError"
    /\ pc = "convergence" =>
          {"x_eval", "y_eval", "nb_data_init", "spd_manifold"} \subseteq names

\* indices of the plotted values
Plotted(plot) == DOMAIN plot.x
IsInitialRow(n) == n < nb_data_init

\* C6: in the convergence graph the first x-axis value of both plots is
\* nb_data_init + 1, the plotted x and y sequences have equal length, and no
\* plotted distance has an initial data point as one of its two end points.
C6_IterationsStartAfterInitialData ==
    pc = "done" =>
        /\ Plotted(plot_dist) # {} => plot_dist.x[0] = nb_data_init + 1
        /\ Plotted(plot_best) # {} => plot_best.x[0] = nb_data_init + 1
        /\ Len0(plot_dist.x) = Len0(plot_dist.y)
        /\ Len0(plot_best.x) = Len0(plot_best.y)
        /\ \A k \in DOMAIN plot_dist.y :
              ~IsInitialRow(plot_dist.y[k][1]) /\ ~IsInitialRow(plot_dist.y[k][2])

\* C9: y_best is the running minimum of y_eval: y_best[i] is the least of
\* y_eval[0..i], so y_best[i] <= y_eval[i], y_best is non-increasing, and its
\* last entry is the least of all evaluated values.
C9_RunningMinimum ==
    pc \in {"convergence_plots", "done", "ValueError"} =>
        /\ DOMAIN y_best = 0..(nb_eval - 1)
        /\ nb_eval = Len0(y_eval)
        /\ \A i \in DOMAIN y_best :
              /\ \E j \in 0..i : y_best[i] = y_eval[j]
              /\ \A j \in 0..i : y_best[i] <= y_eval[j]
              /\ i > 0 => y_best[i] <= y_best[i - 1]
        /\ \A j \in DOMAIN y_eval : y_best[nb_eval - 1] <= y_eval[j]

\* y_best has been computed from values that go down, up and down again, so
\* that the running minimum differs from the values themselves
C9_Witness ==
    /\ pc = "done"
    /\ nb_eval >= 4
    /\ y_eval[0] > y_eval[1]
    /\ y_eval[1] < y_eval[2]
    /\ y_eval[3] < y_eval[1]
    /\ y_best[2] = y_eval[1]
    /\ y_best[3] = y_eval[3]

(***************************************************************************)
(* Properties of the multistart wrapper and of the optimizer               *)
(***************************************************************************)
SucceededSeeds == {i \in DOMAIN seeds : seeds[i].ok}

\* C7: a single run's failure does not abort the others: when some seeds fail
\* and at least one succeeds, every seed is still run, the failed seeds are
\* reported, and the best returned is the best over the successful runs, ties
\* broken by the first found.
C7_FailuresIsolated ==
    (mpc \in {"returned", "failed"} /\ SucceededSeeds # {}) =>
        /\ mpc = "returned"
        /\ {runs[n].seed : n \in DOMAIN runs} = SucceededSeeds
        /\ failed_seeds = DOMAIN seeds \ SucceededSeeds
        /\ best.seed \in SucceededSeeds
        /\ best.value = seeds[best.seed].value
        /\ \A i \in SucceededSeeds :
              /\ seeds[i].value <= best.value
              /\ seeds[i].value = best.value => best.seed <= i

\* the first seed failed, two later seeds succeeded with equal values, and
\* the first of the two is the best
C7_Witness ==
    /\ mpc = "returned"
    /\ Len(seeds) = 3
    /\ failed_seeds = {1}
    /\ seeds[2].value = seeds[3].value
    /\ best.seed = 2
    /\ Len(runs) = 2

\* C8: every accepted iterate is feasible under either line-search policy:
\* the current iterate satisfies in_domain after any number of iterations, and
\* so does the point returned at termination.
C8_IteratesFeasible ==
    /\ opc \in {"ITERATING", "CONVERGED", "MAX_ITER_REACHED"} => in_domain(iterate)
    /\ \A n \in DOMAIN trace : in_domain(trace[n])
    /\ returned # NoPoint => in_domain(returned)
    /\ opc \in {"CONVERGED", "MAX_ITER_REACHED"} => returned = iterate
    /\ opc = "INFEASIBLE_ABORT" => returned = NoPoint

\* a run under the projection policy whose last line search started from an
\* infeasible trial point has ended at the iteration cap with a feasible point
\* that is not the seed
C8_Witness ==
    /\ opc = "MAX_ITER_REACHED"
    /\ policy = "project"
    /\ Len(trace) = MaxIters + 1
    /\ ~in_domain(trial)
    /\ returned = iterate
    /\ returned # trace[1]
    /\ in_domain(returned)

====
